---- MODULE Spec2Model ----
(***************************************************************************)
(* Model of the postgres collector's collection cycle (collect.go) and of  *)
(* the per-database chart surface (charts.go).                              *)
(*                                                                         *)
(* Strings are sequences of tokens.  A database name is a sequence of      *)
(* one-character tokens; an identifier template is a sequence of tokens    *)
(* holding the placeholder "%s" once, and Sprintf substitutes the name for *)
(* it, so that prefix tests on formatted identifiers are real tests.       *)
(***************************************************************************)
EXTENDS Integers, Sequences, FiniteSets, TLC

\* ------------------------------------------------------------------ bounds
\* The clock runs from 0 to MaxClock (time.Now() read once per cycle).
MaxClock == 2
\* Stand-in for math.MaxInt64 in strconv.ParseInt's range check.
MaxInt64 == 127
\* At most MaxRows rows in the result set of the checkpoints query.
MaxRows == 1
\* Stand-in for the largest time.Duration, at which Time.Sub saturates.
MaxDuration == 3
\* Texts handed to safeParseInt on its own are at most MaxTextLen long.
MaxTextLen == 3

\* ------------------------------------------------------------ input domains
\* Database names the server may list.
DbNames == { <<"a">>, <<"a", "_", "b">> }
\* Texts the server-version query may yield: non-numeric, a version number
\* (positive on every server), and a digit string beyond the integer range.
VersionTexts == { <<"x">>, <<"7">>, <<"9", "9", "9">> }
\* Texts the max-connections query may yield.
SettingsTexts == { <<"x">>, <<"7">>, <<"1", "2">>, <<"9", "9", "9">> }
\* The value of every column of the connection and per-database queries.
DatabaseValues == { [Valid |-> TRUE, String |-> <<"7">>] }
\* Values of the metric columns (sql.NullString): NULL or a number's text.
ColumnValues == { [Valid |-> FALSE, String |-> <<>>],
                  [Valid |-> TRUE, String |-> <<"x">>],
                  [Valid |-> TRUE, String |-> <<"7">>] }
\* Characters of the texts handed to safeParseInt on its own.
ParseAlphabet == { "-", "+", "1", "2", "9", "x" }
ParseTexts == UNION { [1..n -> ParseAlphabet] : n \in 0..MaxTextLen }
\* Arguments of calcPercentage on its own.
CalcValues == { -100, -97, -7, -3, -1, 0, 1, 3, 7, 97, 100 }
\* Configured refresh intervals (positive durations), the largest
\* time.Duration among them.
Intervals == { 1, 2, MaxDuration }

\* ----------------------------------------------------------------- strings
Digits == { "0", "1", "2", "3", "4", "5", "6", "7", "8", "9" }

DigitVal(c) ==
    CASE c = "0" -> 0 [] c = "1" -> 1 [] c = "2" -> 2 [] c = "3" -> 3
      [] c = "4" -> 4 [] c = "5" -> 5 [] c = "6" -> 6 [] c = "7" -> 7
      [] c = "8" -> 8 [] c = "9" -> 9

HasPrefix(s, prefix) ==
    /\ Len(prefix) <= Len(s)
    /\ SubSeq(s, 1, Len(prefix)) = prefix

RECURSIVE Sprintf(_, _)
\* fmt.Sprintf(format, arg) for a format with "%s" verbs only.
Sprintf(format, arg) ==
    IF format = <<>> THEN <<>>
    ELSE IF Head(format) = "%s" THEN arg \o Sprintf(Tail(format), arg)
    ELSE <<Head(format)>> \o Sprintf(Tail(format), arg)

\* Stand-in for math.MaxUint64, the range of the unsigned digit loop.
MaxUint64 == 2 * MaxInt64 + 1

RECURSIVE ParseUint(_, _)
\* strconv.ParseUint(s, 10, 64) on a non-empty s, acc the value so far: the
\* first non-digit ends it with a syntax error, the first overflow with a
\* range error and the largest value.  Yields [v, err], err being "nil",
\* "syntax" or "range".
ParseUint(s, acc) ==
    IF s = <<>> THEN [v |-> acc, err |-> "nil"]
    ELSE IF Head(s) \notin Digits THEN [v |-> 0, err |-> "syntax"]
    ELSE IF acc * 10 + DigitVal(Head(s)) > MaxUint64
         THEN [v |-> MaxUint64, err |-> "range"]
    ELSE ParseUint(Tail(s), acc * 10 + DigitVal(Head(s)))

\* strconv.ParseInt(s, 10, 64): optional sign, the unsigned digits, then the
\* signed range check; a range error carries the nearest bound as value.
ParseInt(s) ==
    IF s = <<>> THEN [v |-> 0, err |-> "syntax"]
    ELSE LET neg    == Head(s) = "-"
             body   == IF Head(s) \in {"+", "-"} THEN Tail(s) ELSE s
             un     == IF body = <<>> THEN [v |-> 0, err |-> "syntax"]
                       ELSE ParseUint(body, 0)
             cutoff == MaxInt64 + 1
         IN IF un.err = "syntax" THEN [v |-> 0, err |-> "syntax"]
            ELSE IF ~neg /\ un.v >= cutoff
                 THEN [v |-> cutoff - 1, err |-> "range"]
            ELSE IF neg /\ un.v > cutoff
                 THEN [v |-> 0 - cutoff, err |-> "range"]
            ELSE [v |-> IF neg THEN 0 - un.v ELSE un.v, err |-> "nil"]

\* safeParseInt drops ParseInt's error and keeps its value.
safeParseInt(s) == ParseInt(s).v

\* Go's integer division truncates toward zero.
Quo(a, b) ==
    IF (a >= 0) = (b > 0) THEN (IF a >= 0 THEN a ELSE 0 - a) \div (IF b > 0 THEN b ELSE 0 - b)
    ELSE 0 - ((IF a >= 0 THEN a ELSE 0 - a) \div (IF b > 0 THEN b ELSE 0 - b))

\* Faulty variant: the division before the multiplication.
calcPercentage_DivideFirst(value, total) ==
    IF total = 0 THEN 0 ELSE Quo(value, total) * 100

calcPercentage(value, total) ==
    IF total = 0 THEN 0 ELSE Quo(value * 100, total)

\* ------------------------------------------------------------------ charts
\* "db_%s_<suffix>": the identifier templates of charts.go.
Tmpl(suffix) == <<"d", "b", "_", "%s", "_", suffix>>

LockModes ==
    << "AccessShareLock", "RowShareLock", "RowExclusiveLock",
       "ShareUpdateExclusiveLock", "ShareLock", "ShareRowExclusiveLock",
       "ExclusiveLock", "AccessExclusiveLock" >>

\* "db_%s_lock_mode_<mode>_<state>"
LockTmpl(mode, state) ==
    <<"d", "b", "_", "%s", "_", "lock_mode_", mode, "_", state>>

LockDims(state) == [i \in 1..Len(LockModes) |-> LockTmpl(LockModes[i], state)]

Chart(id, dims) == [ID |-> Tmpl(id), Dims |-> dims]

dbTransactionsChartTmpl ==
    Chart("transactions", <<Tmpl("xact_commit"), Tmpl("xact_rollback")>>)
dbConnectionsUtilizationChartTmpl ==
    Chart("connections_utilization", <<Tmpl("numbackends_utilization")>>)
dbConnectionsChartTmpl ==
    Chart("connections", <<Tmpl("numbackends")>>)
dbBufferCacheChartTmpl ==
    Chart("buffer_cache", <<Tmpl("blks_hit"), Tmpl("blks_read")>>)
dbReadOpsChartTmpl ==
    Chart("read_operations", <<Tmpl("tup_returned"), Tmpl("tup_fetched")>>)
dbWriteOpsChartTmpl ==
    Chart("write_operations",
          <<Tmpl("tup_inserted"), Tmpl("tup_deleted"), Tmpl("tup_updated")>>)
dbConflictsChartTmpl ==
    Chart("conflicts", <<Tmpl("conflicts")>>)
dbConflictsStatChartTmpl ==
    Chart("conflicts_stat",
          <<Tmpl("confl_tablespace"), Tmpl("confl_lock"), Tmpl("confl_snapshot"),
            Tmpl("confl_bufferpin"), Tmpl("confl_deadlock")>>)
dbDeadlocksChartTmpl ==
    Chart("deadlocks", <<Tmpl("deadlocks")>>)
dbLocksHeldChartTmpl ==
    Chart("locks_held", LockDims("held"))
dbLocksAwaitedChartTmpl ==
    Chart("locks_awaited", LockDims("awaited"))
dbTempFilesChartTmpl ==
    Chart("temp_files", <<Tmpl("temp_files")>>)
dbTempFilesDataChartTmpl ==
    Chart("temp_files_data", <<Tmpl("temp_bytes")>>)
dbSizeChartTmpl ==
    Chart("size", <<Tmpl("size")>>)

dbChartsTmpl ==
    << dbTransactionsChartTmpl, dbConnectionsUtilizationChartTmpl,
       dbConnectionsChartTmpl, dbBufferCacheChartTmpl, dbReadOpsChartTmpl,
       dbWriteOpsChartTmpl, dbConflictsChartTmpl, dbConflictsStatChartTmpl,
       dbDeadlocksChartTmpl, dbLocksHeldChartTmpl, dbLocksAwaitedChartTmpl,
       dbTempFilesChartTmpl, dbTempFilesDataChartTmpl, dbSizeChartTmpl >>

\* The identifiers of the templates ts with the name formatted in.
Bound(ts, dbname) ==
    [i \in 1..Len(ts) |->
        [ID   |-> Sprintf(ts[i].ID, dbname),
         Dims |-> [j \in 1..Len(ts[i].Dims) |-> Sprintf(ts[i].Dims[j], dbname)]]]

\* Faulty variant: the name is formatted into the templates themselves.
bindTemplates_InPlace(ts, dbname) ==
    [charts |-> [i \in 1..Len(ts) |->
                    [ID      |-> Bound(ts, dbname)[i].ID,
                     Dims    |-> Bound(ts, dbname)[i].Dims,
                     remove  |-> FALSE,
                     created |-> FALSE]],
     tmpls  |-> Bound(ts, dbname)]

\* The body of newDatabaseCharts over the templates ts: the name is
\* formatted into every chart and dimension identifier of a copy
\* (dbChartsTmpl.Copy()), so the templates stay as they were; a new chart is
\* neither marked for removal nor created yet.
bindTemplates(ts, dbname) ==
    [charts |-> [i \in 1..Len(ts) |->
                    [ID      |-> Bound(ts, dbname)[i].ID,
                     Dims    |-> Bound(ts, dbname)[i].Dims,
                     remove  |-> FALSE,
                     created |-> FALSE]],
     tmpls  |-> ts]

\* newDatabaseCharts on the templates as charts.go declares them.
newDatabaseCharts(dbname) == bindTemplates(dbChartsTmpl, dbname).charts

RECURSIVE ChartsAdd_NoCheck(_, _)
\* Faulty variant: every chart is appended, whatever the list holds.
ChartsAdd_NoCheck(cs, new) ==
    IF new = <<>> THEN cs
    ELSE ChartsAdd_NoCheck(cs \cup {Head(new)}, Tail(new))

RECURSIVE ChartsAdd(_, _)
\* module.Charts.Add: appends the charts one by one and stops, with an
\* error, at the first whose ID a chart already in the list carries.
ChartsAdd(cs, new) ==
    IF new = <<>> THEN cs
    ELSE IF \E c \in cs : c.ID = Head(new).ID THEN cs
    ELSE ChartsAdd(cs \cup {Head(new)}, Tail(new))

\* addNewDatabaseCharts: an error of Add is logged, not returned.
addNewDatabaseCharts(cs, dbname) == ChartsAdd(cs, newDatabaseCharts(dbname))

\* removeDatabaseCharts: MarkRemove and MarkNotCreated on every chart whose
\* ID starts with "db_<dbname>_".
removeDatabaseCharts(cs, dbname) ==
    LET prefix == Sprintf(<<"d", "b", "_", "%s", "_">>, dbname)
    IN { IF HasPrefix(c.ID, prefix)
         THEN [c EXCEPT !.remove = TRUE, !.created = FALSE]
         ELSE c : c \in cs }

\* ------------------------------------------------------------ row flattener
valueToString(value) == IF ~value.Valid THEN <<>> ELSE value.String

RECURSIVE RowCalls(_, _, _)
\* The inner loop of collectRows over one scanned row: assign(columns[i],
\* valueToString(v)) for i = from..len.
RowCalls(columns, values, from) ==
    IF from > Len(values) THEN <<>>
    ELSE <<[column |-> columns[from], value |-> valueToString(values[from])]>>
         \o RowCalls(columns, values, from + 1)

RECURSIVE AllRowCalls_LastFirst(_, _, _)
\* Faulty variant: the rows are walked from the last to the first.
AllRowCalls_LastFirst(columns, rows, from) ==
    IF from > Len(rows) THEN <<>>
    ELSE AllRowCalls_LastFirst(columns, rows, from + 1)
         \o RowCalls(columns, rows[from], 1)

RECURSIVE AllRowCalls(_, _, _)
AllRowCalls(columns, rows, from) ==
    IF from > Len(rows) THEN <<>>
    ELSE RowCalls(columns, rows[from], 1) \o AllRowCalls(columns, rows, from + 1)

\* collectRows on a result set: res.columns, the rows res.rows the cursor
\* delivers, and res.end, how the cursor stops after them: "eof", "scan" (the
\* next row's Scan fails), "next" (rows.Next() stops on an iteration error)
\* or "columns" (rows.Columns() fails, before any row).  Yields the callback
\* invocations in order and whether an error is returned.  rows.Err() is not
\* consulted after the loop, so "next" returns no error.
collectRows(res) ==
    IF res.end = "columns" THEN [calls |-> <<>>, err |-> TRUE]
    ELSE [calls |-> AllRowCalls(res.columns, res.rows, 1),
          err   |-> res.end = "scan"]

\* m with m[k] set to v.
MapSet(m, k, v) ==
    [x \in DOMAIN m \cup {k} |-> IF x = k THEN v ELSE m[x]]

RECURSIVE assignColumns(_, _)
\* The closure of collectCheckpoints applied to the callback invocations:
\* mx[column] = safeParseInt(value).
assignColumns(m, calls) ==
    IF calls = <<>> THEN m
    ELSE assignColumns(MapSet(m, <<Head(calls).column>>,
                              safeParseInt(Head(calls).value)),
                       Tail(calls))

\* Columns of the checkpoints query (the dimensions of the checkpoint and
\* background-writer charts).
CheckpointColumns ==
    << "checkpoints_timed", "checkpoints_req", "checkpoint_write_time",
       "checkpoint_sync_time", "buffers_checkpoint", "buffers_clean",
       "maxwritten_clean", "buffers_backend", "buffers_backend_fsync",
       "buffers_alloc" >>

\* Result sets of the checkpoints query: up to MaxRows rows, each carrying
\* one value in every column.
CheckpointRows ==
    UNION { [1..n -> { [i \in 1..Len(CheckpointColumns) |-> v] : v \in ColumnValues }]
            : n \in 0..MaxRows }

CheckpointResults ==
    { [columns |-> CheckpointColumns, rows |-> rs, end |-> e]
      : rs \in CheckpointRows, e \in {"eof", "scan", "next"} }
    \cup { [columns |-> <<>>, rows |-> <<>>, end |-> "columns"] }

\* Result sets handed to collectRows on its own: two columns, up to
\* MaxRows + 1 rows whose columns vary independently, and every way the
\* cursor may stop.
FlattenColumns == << "c1", "c2" >>
FlattenRows ==
    UNION { [1..n -> [1..Len(FlattenColumns) -> ColumnValues]] : n \in 0..(MaxRows + 1) }
FlattenResults ==
    { [columns |-> FlattenColumns, rows |-> rs, end |-> e]
      : rs \in FlattenRows, e \in {"eof", "scan", "next"} }
    \cup { [columns |-> <<>>, rows |-> <<>>, end |-> "columns"] }

\* --------------------------------------------------------------------- time
\* The zero time.Time of an unset timestamp field.
ZeroTime == 0
\* The clock at process start: later than ZeroTime by more than MaxDuration.
StartClock == MaxDuration + 1

\* Faulty variant: the difference without the saturation.
Sub_Unsaturated(t, u) == t - u

\* Time.Sub: t - u, saturated at the largest Duration.
Sub(t, u) == IF t - u > MaxDuration THEN MaxDuration ELSE t - u

\* Faulty variant: the window test with >= for >.
Elapsed_AtBoundary(t, last, every) == Sub(t, last) >= every

\* The refresh-window test of collect: now.Sub(last) > every.
Elapsed(t, last, every) == Sub(t, last) > every

\* -------------------------------------------------------------------- state
VARIABLES
    pc,                   \* position of collect(): "idle" between cycles
    db,                   \* p.db: 0 is nil, otherwise the session handle
    sessions,             \* handles sql.Open has returned and nobody closed
    serverVersion,        \* p.serverVersion
    maxConnections,       \* p.maxConnections
    recheckSettingsTime,  \* p.recheckSettingsTime
    recheckSettingsEvery, \* p.recheckSettingsEvery
    relistDatabaseTime,   \* p.relistDatabaseTime
    relistDatabaseEvery,  \* p.relistDatabaseEvery
    databases,            \* p.databases
    charts,               \* *p.Charts()
    now,                  \* the local now of collect()
    mx,                   \* the local mx of collect()
    ret,                  \* what the last collect() returned
    clock,                \* wall clock
    issued,               \* queries the current cycle has issued, in order
    pre,                  \* the fields as they were when the cycle began
    calls,                \* materialize / retire calls of the current cycle
    tmpls,                \* the package variable dbChartsTmpl
    input,                \* argument of a function applied on its own
    result                \* what that function returned

settings == <<serverVersion, maxConnections, recheckSettingsTime, relistDatabaseTime>>
config == <<recheckSettingsEvery, relistDatabaseEvery>>
registry == <<databases, charts, calls>>
bench == <<tmpls, input, result>>
vars == <<pc, db, sessions, settings, config, registry, now, mx, ret, clock, issued, pre, bench>>

\* The base charts: server-scoped, present from construction.
baseCharts ==
    { [ID |-> <<id>>, Dims |-> <<>>, remove |-> FALSE, created |-> FALSE]
      : id \in { "connections_utilization", "connections_usage", "checkpoints",
                 "checkpoint_time", "bgwriter_buffers_written",
                 "bgwriter_buffers_alloc", "bgwriter_maxwritten_clean",
                 "bgwriter_buffers_backend_fsync" } }

EmptyMap == <<>>
NoCalls == [added |-> {}, removed |-> {}, n |-> 0]
NoRet == [nil |-> TRUE, mx |-> EmptyMap, err |-> "none"]
NoValue == [kind |-> "none"]

Fields ==
    [serverVersion |-> serverVersion, maxConnections |-> maxConnections,
     recheckSettingsTime |-> recheckSettingsTime,
     relistDatabaseTime |-> relistDatabaseTime,
     databases |-> databases, db |-> db, clock |-> clock]

Init ==
    /\ pc = "idle"
    /\ db = 0
    /\ sessions = 0
    /\ serverVersion = 0
    /\ maxConnections = 0
    /\ recheckSettingsTime = ZeroTime
    /\ relistDatabaseTime = ZeroTime
    /\ recheckSettingsEvery \in Intervals
    /\ relistDatabaseEvery \in Intervals
    /\ databases = {}
    /\ charts = baseCharts
    /\ now = ZeroTime
    /\ mx = EmptyMap
    /\ ret = NoRet
    /\ clock = StartClock
    /\ issued = <<>>
    /\ pre = Fields
    /\ calls = NoCalls
    /\ tmpls = dbChartsTmpl
    /\ input = NoValue
    /\ result = NoValue

\* ------------------------------------------------------------ control flow
\* Faulty variant: checkpoints collected before the server connections.
StepOrder_Swapped ==
    << "version", "settings", "dblist", "checkpoints", "connection",
       "dbstats", "dbconflicts", "dblocks" >>

\* The order in which collect() runs its steps.
StepOrder ==
    << "version", "settings", "dblist", "connection", "checkpoints",
       "dbstats", "dbconflicts", "dblocks" >>

StepIndex(step) == CHOOSE i \in 1..Len(StepOrder) : StepOrder[i] = step

\* Faulty variant: a failed step does not return; the cycle goes on.
AfterStep_Continue(step, ok) ==
    IF StepIndex(step) = Len(StepOrder) THEN "idle"
    ELSE StepOrder[StepIndex(step) + 1]

\* Where collect() goes after a step: on to the next one, or out through
\* the step's return statement ("idle") when it failed or was the last.
AfterStep(step, ok) ==
    IF ~ok \/ StepIndex(step) = Len(StepOrder) THEN "idle"
    ELSE StepOrder[StepIndex(step) + 1]

\* Faulty variant: a failure before the metric steps returns an empty map, not nil.
ReturnNil_EmptyMap(label) == [nil |-> FALSE, mx |-> EmptyMap, err |-> label]

\* return nil, fmt.Errorf(label)
ReturnNil(label) == [nil |-> TRUE, mx |-> EmptyMap, err |-> label]
\* Faulty variant: a failed metric step returns nil instead of the map.
ReturnMx_Nil(m, label) ==
    IF label = "nil" THEN [nil |-> FALSE, mx |-> m, err |-> label]
    ELSE [nil |-> TRUE, mx |-> EmptyMap, err |-> label]

\* return mx, fmt.Errorf(label)   (label "nil": return mx, nil)
ReturnMx(m, label) == [nil |-> FALSE, mx |-> m, err |-> label]

\* One more query in the cycle's log: its name, the error it ended with
\* ("nil" for none), and the database names it was parameterised by (for the
\* database list, the names it returned).
IssueErr(q, err, dbs) ==
    Append(issued, [q |-> q, ok |-> err = "nil", dbs |-> dbs, err |-> err])

\* The same, for a query that can only fail as a query.
Issue(q, ok, dbs) == IssueErr(q, IF ok THEN "nil" ELSE "query", dbs)

\* A step's outcome: goes on when ok, otherwise returns r.
Outcome(step, ok, r) ==
    /\ pc' = AfterStep(step, ok)
    /\ ret' = IF ok THEN ret ELSE r

\* ------------------------------------------------------------ query results
\* A one-row scalar query: it fails, or yields one text.
ScalarResults(texts) ==
    { [err |-> TRUE, text |-> <<>>] }
    \cup { [err |-> FALSE, text |-> t] : t \in texts }

\* queryServerVersion: the Scan error, else strconv.Atoi of the text.
queryServerVersion(res) ==
    IF res.err THEN [v |-> 0, err |-> "query"] ELSE ParseInt(res.text)

\* querySettingsMaxConnections: the Scan error, else strconv.ParseInt.
querySettingsMaxConnections(res) ==
    IF res.err THEN [v |-> 0, err |-> "query"] ELSE ParseInt(res.text)

\* The database-list query: it fails, or lists a set of names.
DatabaseListResults ==
    { [err |-> TRUE, names |-> {}] }
    \cup { [err |-> FALSE, names |-> ns] : ns \in SUBSET DbNames }

\* A metrics query of the steps held outside this file set: it fails or not,
\* carries one value per column, and has delivered the rows of the databases
\* in `wrote`: all of them on success, none or all of them on failure.
StepResults(dbs) ==
    { [err |-> FALSE, v |-> v, wrote |-> dbs] : v \in DatabaseValues }
    \cup { [err |-> TRUE, v |-> v, wrote |-> w] : v \in DatabaseValues, w \in {{}, dbs} }

\* ---------------------------------------------------------- entity registry
RECURSIVE FoldAdd(_, _)
FoldAdd(cs, names) ==
    IF names = {} THEN cs
    ELSE LET n == CHOOSE x \in names : TRUE
         IN FoldAdd(addNewDatabaseCharts(cs, n), names \ {n})

RECURSIVE FoldRemove(_, _)
FoldRemove(cs, names) ==
    IF names = {} THEN cs
    ELSE LET n == CHOOSE x \in names : TRUE
         IN FoldRemove(removeDatabaseCharts(cs, n), names \ {n})

\* Faulty variant: every listed name is materialized, new or not.
collectDatabaseList_Renotify(old, cs, fresh) ==
    LET added   == fresh
        removed == old \ fresh
    IN [databases |-> fresh,
        charts    |-> FoldRemove(FoldAdd(cs, added), removed),
        calls     |-> [added |-> added, removed |-> removed,
                       n |-> Cardinality(added) + Cardinality(removed)]]

\* collectDatabaseList (reconcileInventory): materialize the names that are
\* new, retire the names that are gone, and keep the fresh set.
collectDatabaseList(old, cs, fresh) ==
    LET added   == fresh \ old
        removed == old \ fresh
    IN [databases |-> fresh,
        charts    |-> FoldRemove(FoldAdd(cs, added), removed),
        calls     |-> [added |-> added, removed |-> removed,
                       n |-> Cardinality(added) + Cardinality(removed)]]

\* ------------------------------------------------------------ metric steps
RECURSIVE SeqToSet(_)
SeqToSet(q) == IF q = <<>> THEN {} ELSE {Head(q)} \cup SeqToSet(Tail(q))

\* The dimension templates of the charts with the given indexes.
DimsOf(idx) == UNION { SeqToSet(dbChartsTmpl[i].Dims) : i \in idx }

StatsDims == DimsOf({1, 2, 3, 4, 5, 6, 7, 9, 12, 13, 14})
ConflictsDims == DimsOf({8})
LocksDims == DimsOf({10, 11})

\* m with every key of ks set to v.
MapSetAll(m, ks, v) ==
    [x \in DOMAIN m \cup ks |-> IF x \in ks THEN v ELSE m[x]]

\* A per-database step's assignments: db_<name>_<metric> for every metric of
\* the step and every database whose row was delivered.
assignDatabases(m, dims, res) ==
    MapSetAll(m, { Sprintf(d, n) : d \in dims, n \in res.wrote },
              safeParseInt(valueToString(res.v)))

\* collectConnection's assignments: used, available and utilization of the
\* server's connection slots.
assignConnection(m, res, maxConn) ==
    LET used == safeParseInt(valueToString(res.v))
    IN IF res.wrote = {} /\ res.err THEN m
       ELSE MapSet(MapSet(MapSet(m,
                <<"server_connections_used">>, used),
                <<"server_connections_available">>, maxConn - used),
                <<"server_connections_utilization">>, calcPercentage(used, maxConn))

\* ------------------------------------------------------------------ actions
\* Faulty variant: the map of the previous cycle is used again.
NewMap_Reused(m) == m

\* mx := make(map[string]int64): the cycle's map starts empty, whatever the
\* map m of the previous call held.
NewMap(m) == EmptyMap

\* Faulty variant: the per-database queries use the registry the cycle
\* began with.
QueriedDatabases_AtStart == pre.databases

\* The database names a metrics query is parameterised by: p.databases as
\* it stands when the step runs.
QueriedDatabases == databases

\* Faulty variant: a session is opened in every cycle.
NeedsOpen_Always(d) == TRUE

\* p.db == nil: no session handle is held.  A handle is the number of the
\* open that produced it.
NeedsOpen(d) == d = 0

\* How openConnection may end: sql.Open fails, the ping fails, or both
\* succeed.
OpenOutcomes == { "open", "ping", "ok" }

\* Faulty variant: a handle whose ping failed is left open.
openConnection_NoClose(d, n, outcome) ==
    CASE outcome = "open" -> [db |-> d, sessions |-> n, err |-> TRUE]
      [] outcome = "ping" -> [db |-> d, sessions |-> n + 1, err |-> TRUE]
      [] outcome = "ok"   -> [db |-> d + 1, sessions |-> n + 1, err |-> FALSE]

\* Faulty variant: the handle of a successful open is not recorded.
openConnection_NotRecorded(d, n, outcome) ==
    CASE outcome = "open" -> [db |-> d, sessions |-> n, err |-> TRUE]
      [] outcome = "ping" -> [db |-> d, sessions |-> n, err |-> TRUE]
      [] outcome = "ok"   -> [db |-> d, sessions |-> n + 1, err |-> FALSE]

\* openConnection with p.db = d and n handles open: a failed sql.Open
\* returns the error; a failed ping closes the new handle and returns the
\* error; otherwise the new handle is recorded in p.db.
openConnection(d, n, outcome) ==
    CASE outcome = "open" -> [db |-> d, sessions |-> n, err |-> TRUE]
      [] outcome = "ping" -> [db |-> d, sessions |-> n, err |-> TRUE]
      [] outcome = "ok"   -> [db |-> d + 1, sessions |-> n + 1, err |-> FALSE]

\* collect() is entered, some time after the previous cycle (the clock is
\* read once per cycle, so the time a cycle takes is part of that gap): with
\* no session it opens one (openConnection), and
\* a failed open or ping leaves p.db nil and returns nil and the error.
CollectBegin ==
    /\ pc = "idle"
    /\ \E t \in clock..(StartClock + MaxClock) : clock' = t
    /\ issued' = <<>>
    /\ pre' = [Fields EXCEPT !.clock = clock']
    /\ calls' = NoCalls
    /\ mx' = NewMap(mx)
    /\ IF NeedsOpen(db)
       THEN \E outcome \in OpenOutcomes :
                LET o == openConnection(db, sessions, outcome)
                IN /\ db' = o.db
                   /\ sessions' = o.sessions
                   /\ pc' = IF o.err THEN "idle" ELSE StepOrder[1]
                   /\ ret' = IF o.err THEN ReturnNil("open") ELSE NoRet
       ELSE /\ pc' = StepOrder[1]
            /\ ret' = NoRet
            /\ UNCHANGED <<db, sessions>>
    /\ UNCHANGED <<settings, config, databases, charts, now, bench>>

\* Faulty variant: the version is probed in every cycle.
VersionUnset_Always(v) == TRUE

\* p.serverVersion == 0: the version has not been probed yet.
VersionUnset(v) == v = 0

\* The server-version probe, then now := time.Now().
ProbeServerVersion ==
    /\ pc = "version"
    /\ IF VersionUnset(serverVersion)
       THEN \E res \in ScalarResults(VersionTexts) :
                LET r  == queryServerVersion(res)
                    ok == r.err = "nil"
                IN /\ serverVersion' = IF ok THEN r.v ELSE serverVersion
                   /\ issued' = IssueErr("version", r.err, {})
                   /\ Outcome("version", ok, ReturnNil("querying server version error"))
                   /\ now' = IF pc' = "idle" THEN now ELSE clock
       ELSE /\ Outcome("version", TRUE, ret)
            /\ now' = clock
            /\ UNCHANGED <<serverVersion, issued>>
    /\ UNCHANGED <<db, sessions, maxConnections, recheckSettingsTime, relistDatabaseTime,
                   config, registry, mx, clock, pre, bench>>

\* Faulty variant: the returned value is stored before the error is looked at.
maxConnectionsAfter_Unchecked(old, r) == r.v

\* p.maxConnections after the settings query returned r.
maxConnectionsAfter(old, r) == IF r.err # "nil" THEN old ELSE r.v

\* The settings refresh, behind its window.
RecheckSettings ==
    /\ pc = "settings"
    /\ IF Elapsed(now, recheckSettingsTime, recheckSettingsEvery)
       THEN \E res \in ScalarResults(SettingsTexts) :
                LET r  == querySettingsMaxConnections(res)
                    ok == r.err = "nil"
                IN /\ recheckSettingsTime' = now
                   /\ maxConnections' = maxConnectionsAfter(maxConnections, r)
                   /\ issued' = IssueErr("settings", r.err, {})
                   /\ Outcome("settings", ok,
                              ReturnNil("querying settings max connections error"))
       ELSE /\ Outcome("settings", TRUE, ret)
            /\ UNCHANGED <<recheckSettingsTime, maxConnections, issued>>
    /\ UNCHANGED <<db, sessions, serverVersion, relistDatabaseTime, config, registry,
                   now, mx, clock, pre, bench>>

\* Faulty variant: the inventory refresh gated by the settings window.
RelistElapsed_SettingsWindow ==
    Elapsed(now, recheckSettingsTime, recheckSettingsEvery)

\* The inventory window of collect: its own timestamp and interval.
RelistElapsed == Elapsed(now, relistDatabaseTime, relistDatabaseEvery)

\* Faulty variant: the listing is reconciled before its error is looked at.
registryAfter_Unchecked(cur, ok, r) == r

\* The registry after the database-list query: reconciled with the listing
\* (r) when the query succeeded, left as it was (cur) when it failed.
registryAfter(cur, ok, r) == IF ok THEN r ELSE cur

\* The inventory refresh, behind its window, then mx := make(map).
RelistDatabases ==
    /\ pc = "dblist"
    /\ IF RelistElapsed
       THEN \E res \in DatabaseListResults :
                LET ok  == ~res.err
                    cur == [databases |-> databases, charts |-> charts,
                            calls |-> calls]
                    r   == registryAfter(cur, ok,
                               collectDatabaseList(databases, charts, res.names))
                IN /\ relistDatabaseTime' = now
                   /\ databases' = r.databases
                   /\ charts' = r.charts
                   /\ calls' = r.calls
                   /\ issued' = Issue("dblist", ok, res.names)
                   /\ Outcome("dblist", ok, ReturnNil("querying database list error"))
       ELSE /\ Outcome("dblist", TRUE, ret)
            /\ UNCHANGED <<relistDatabaseTime, registry, issued>>
    /\ mx' = NewMap(mx)
    /\ UNCHANGED <<db, sessions, serverVersion, maxConnections, recheckSettingsTime,
                   config, now, clock, pre, bench>>

\* A metric step: the query is issued, the step's assignments land in mx,
\* and a failure returns mx with the step's error.
MetricStepErr(step, err, m, label) ==
    /\ mx' = m
    /\ issued' = IssueErr(step, err, QueriedDatabases)
    /\ pc' = AfterStep(step, err = "nil")
    /\ ret' = IF err # "nil" THEN ReturnMx(m, label)
              ELSE IF pc' = "idle" THEN ReturnMx(m, "nil")
              ELSE ret
    /\ UNCHANGED <<db, sessions, settings, config, registry, now, clock, pre, bench>>

\* The same, for a step that can only fail as a query.
MetricStep(step, ok, m, label) ==
    MetricStepErr(step, IF ok THEN "nil" ELSE "query", m, label)

CollectConnection ==
    /\ pc = "connection"
    /\ \E res \in StepResults({<<"server">>}) :
           MetricStep("connection", ~res.err,
                      assignConnection(mx, res, maxConnections),
                      "querying server connections error")

\* Faulty variant: a column that does not parse fails the step.
collectCheckpoints_Strict(m, qerr, res) ==
    IF qerr THEN [mx |-> m, err |-> "query"]
    ELSE [mx  |-> assignColumns(m, collectRows(res).calls),
          err |-> IF collectRows(res).err THEN "rows"
                  ELSE IF \E i \in 1..Len(collectRows(res).calls) :
                              ParseInt(collectRows(res).calls[i].value).err # "nil"
                       THEN "syntax"
                       ELSE "nil"]

\* Faulty variant: a failed query hands back an emptied map.
collectCheckpoints_ClearsMap(m, qerr, res) ==
    IF qerr THEN [mx |-> EmptyMap, err |-> "query"]
    ELSE [mx  |-> assignColumns(m, collectRows(res).calls),
          err |-> IF collectRows(res).err THEN "rows" ELSE "nil"]

\* collectCheckpoints: the query may fail ("query"); otherwise collectRows
\* with the closure mx[column] = safeParseInt(value), whose error ("rows")
\* is returned as it is.
collectCheckpoints(m, qerr, res) ==
    IF qerr THEN [mx |-> m, err |-> "query"]
    ELSE [mx  |-> assignColumns(m, collectRows(res).calls),
          err |-> IF collectRows(res).err THEN "rows" ELSE "nil"]

CollectCheckpoints ==
    /\ pc = "checkpoints"
    /\ \E qerr \in BOOLEAN, res \in CheckpointResults :
           /\ qerr => res.end = "columns"
           /\ LET r == collectCheckpoints(mx, qerr, res)
              IN MetricStepErr("checkpoints", r.err, r.mx,
                            "querying database conflicts error")

CollectDatabaseStats ==
    /\ pc = "dbstats"
    /\ \E res \in StepResults(QueriedDatabases) :
           MetricStep("dbstats", ~res.err, assignDatabases(mx, StatsDims, res),
                      "querying database stats error")

CollectDatabaseConflicts ==
    /\ pc = "dbconflicts"
    /\ \E res \in StepResults(QueriedDatabases) :
           MetricStep("dbconflicts", ~res.err,
                      assignDatabases(mx, ConflictsDims, res),
                      "querying database conflicts error")

CollectDatabaseLocks ==
    /\ pc = "dblocks"
    /\ \E res \in StepResults(QueriedDatabases) :
           MetricStep("dblocks", ~res.err, assignDatabases(mx, LocksDims, res),
                      "querying database locks error")

Next ==
    \/ CollectBegin
    \/ ProbeServerVersion
    \/ RecheckSettings
    \/ RelistDatabases
    \/ CollectConnection
    \/ CollectCheckpoints
    \/ CollectDatabaseStats
    \/ CollectDatabaseConflicts
    \/ CollectDatabaseLocks

Spec == Init /\ [][Next]_vars

\* ------------------------------------------- the chart surface on its own
\* addNewDatabaseCharts and removeDatabaseCharts applied in any order to the
\* names of ChartNames, with the consuming layer's pass over the charts in
\* between.  Here input[n] counts the materializations of n that added
\* series (up to two), and result[n] holds the series the first one added.
ChartNames == DbNames \cup { <<"p">> }

\* The fields of the cycle, which these operations leave alone.
cycle == <<pc, db, sessions, settings, config, now, mx, ret, clock, issued, pre, calls>>

\* The state after construction, with both intervals at their smallest.
Constructed ==
    /\ pc = "idle"
    /\ db = 0
    /\ sessions = 0
    /\ serverVersion = 0
    /\ maxConnections = 0
    /\ recheckSettingsTime = ZeroTime
    /\ relistDatabaseTime = ZeroTime
    /\ recheckSettingsEvery = 1
    /\ relistDatabaseEvery = 1
    /\ databases = {}
    /\ charts = baseCharts
    /\ now = ZeroTime
    /\ mx = EmptyMap
    /\ ret = NoRet
    /\ clock = StartClock
    /\ issued = <<>>
    /\ pre = Fields
    /\ calls = NoCalls
    /\ tmpls = dbChartsTmpl

\* addNewDatabaseCharts over the templates ts: the charts and the templates
\* it leaves.
materialize(ts, cs, dbname) ==
    LET b == bindTemplates(ts, dbname)
    IN [charts |-> ChartsAdd(cs, b.charts), tmpls |-> b.tmpls]

\* The consuming layer's pass after a cycle: charts not yet created are
\* created, charts marked for removal are dropped from the list.
processCharts(cs) ==
    { [c EXCEPT !.created = TRUE] : c \in { d \in cs : ~d.remove } }

\* The series names (chart ID and dimension IDs) of the charts of cs whose
\* ID is one of the IDs the templates give dbname.
SeriesOf(cs, dbname) ==
    LET ids == { Sprintf(dbChartsTmpl[i].ID, dbname) : i \in 1..Len(dbChartsTmpl) }
    IN { c \in cs : c.ID \in ids }
Names(cs) == { [ID |-> c.ID, Dims |-> c.Dims] : c \in cs }
LiveNames(cs, dbname) == Names({ c \in SeriesOf(cs, dbname) : ~c.remove })

InitCharts ==
    /\ Constructed
    /\ input = [n \in ChartNames |-> 0]
    /\ result = [n \in ChartNames |-> {}]

Materialize(n) ==
    /\ LET m == materialize(tmpls, charts, n)
       IN charts' = m.charts /\ tmpls' = m.tmpls
    /\ databases' = databases \cup {n}
    /\ input' = IF charts' # charts /\ input[n] < 2
                THEN [input EXCEPT ![n] = @ + 1] ELSE input
    /\ result' = IF input[n] = 0 /\ charts' # charts
                 THEN [result EXCEPT ![n] = LiveNames(charts', n)] ELSE result
    /\ UNCHANGED cycle

Retire(n) ==
    /\ charts' = removeDatabaseCharts(charts, n)
    /\ databases' = databases \ {n}
    /\ UNCHANGED <<cycle, bench>>

ProcessCharts ==
    /\ charts' = processCharts(charts)
    /\ UNCHANGED <<cycle, databases, bench>>

NextCharts ==
    \/ \E n \in ChartNames : Materialize(n)
    \/ \E n \in ChartNames : Retire(n)
    \/ ProcessCharts

SpecCharts == InitCharts /\ [][NextCharts]_vars

\* ------------------------------------------------ the functions on their own
\* safeParseInt, calcPercentage, collectCheckpoints and collectRows applied
\* once to an argument drawn at the start.
PureInputs ==
    { [kind |-> "text", text |-> t] : t \in ParseTexts }
    \cup { [kind |-> "ratio", value |-> v, total |-> t]
           : v \in CalcValues, t \in CalcValues }
    \cup { [kind |-> "rows", qerr |-> FALSE, res |-> r] : r \in CheckpointResults }
    \cup { [kind |-> "rows", qerr |-> TRUE,
            res |-> [columns |-> <<>>, rows |-> <<>>, end |-> "columns"]] }
    \cup { [kind |-> "result", res |-> r] : r \in FlattenResults }

InitPure ==
    /\ Constructed
    /\ input \in PureInputs
    /\ result = NoValue

ApplySafeParseInt ==
    /\ input.kind = "text"
    /\ result = NoValue
    /\ result' = [kind |-> "parsed", v |-> safeParseInt(input.text)]
    /\ UNCHANGED <<cycle, databases, charts, tmpls, input>>

ApplyCalcPercentage ==
    /\ input.kind = "ratio"
    /\ result = NoValue
    /\ result' = [kind |-> "percentage",
                  v |-> calcPercentage(input.value, input.total)]
    /\ UNCHANGED <<cycle, databases, charts, tmpls, input>>

ApplyCollectCheckpoints ==
    /\ input.kind = "rows"
    /\ result = NoValue
    /\ result' = [kind |-> "checkpoints",
                  v |-> collectCheckpoints(EmptyMap, input.qerr, input.res)]
    /\ UNCHANGED <<cycle, databases, charts, tmpls, input>>

ApplyCollectRows ==
    /\ input.kind = "result"
    /\ result = NoValue
    /\ result' = [kind |-> "flattened", v |-> collectRows(input.res)]
    /\ UNCHANGED <<cycle, databases, charts, tmpls, input>>

NextPure ==
    \/ ApplySafeParseInt
    \/ ApplyCalcPercentage
    \/ ApplyCollectCheckpoints
    \/ ApplyCollectRows

SpecPure == InitPure /\ [][NextPure]_vars

\* ------------------------------------------------------- claim vocabulary
\* Check() on what collect() returned: Collect() hands on a map that is not
\* empty, whatever the error, and Check() succeeds when it gets one.
Check(r) == ~r.nil /\ DOMAIN r.mx # {}

\* The queries of a cycle, in the order collect() is specified to issue them.
QueryOrder ==
    << "version", "settings", "dblist", "connection", "checkpoints",
       "dbstats", "dbconflicts", "dblocks" >>

Pos(q) == CHOOSE i \in 1..Len(QueryOrder) : QueryOrder[i] = q

PreQueries == { "version", "settings", "dblist" }
MetricQueries == { "connection", "checkpoints", "dbstats", "dbconflicts", "dblocks" }

\* A cycle has run and collect() has returned.
Returned == pc = "idle" /\ ret.err # "none"

HasIssued(q) == \E i \in 1..Len(issued) : issued[i].q = q
IssuedOk(q) == \E i \in 1..Len(issued) : issued[i].q = q /\ issued[i].ok
Failed(q) == \E i \in 1..Len(issued) : issued[i].q = q /\ ~issued[i].ok
Entry(q) == issued[CHOOSE i \in 1..Len(issued) : issued[i].q = q]

\* The returned cycle failed at one of the five metric steps.
MetricStepFailed == Returned /\ \E q \in MetricQueries : Failed(q)
\* The returned cycle failed before the metric steps: at the open, or at one
\* of the three metadata queries.
OpenFailed == Returned /\ issued = <<>> /\ db = 0
PreStepFailed == OpenFailed \/ (Returned /\ \E q \in PreQueries : Failed(q))

\* now - last > every, for the cycle's time t.
WindowElapsed(t, last, every) == Sub(t, last) > every
SettingsElapsedAtStart ==
    WindowElapsed(pre.clock, pre.recheckSettingsTime, recheckSettingsEvery)
InventoryElapsedAtStart ==
    WindowElapsed(pre.clock, pre.relistDatabaseTime, relistDatabaseEvery)

\* The cycle has got past the k-th query of the order.
Past(k) ==
    \/ pc # "idle" /\ Pos(pc) > k
    \/ \E i \in 1..Len(issued) : Pos(issued[i].q) > k
    \/ pc = "idle" /\ ret.err = "nil"

\* The keys a successful metric step has written for the databases dbs.
StepKeys(q, dbs) ==
    CASE q = "connection" ->
             { <<"server_connections_used">>, <<"server_connections_available">>,
               <<"server_connections_utilization">> }
      [] q = "checkpoints" -> {}
      [] q = "dbstats" -> { Sprintf(d, n) : d \in StatsDims, n \in dbs }
      [] q = "dbconflicts" -> { Sprintf(d, n) : d \in ConflictsDims, n \in dbs }
      [] q = "dblocks" -> { Sprintf(d, n) : d \in LocksDims, n \in dbs }

\* ------------------------------------------------------------------- claims
\* C1 (as stated): if any of the five collection steps fails, collect()
\* returns no Snapshot: the result is nil, never a map holding the values of
\* the earlier steps.
C1_NilOnStepFailure == MetricStepFailed => ret.nil

\* C1 (amended): if any of the five collection steps fails, collect()
\* returns the step's error together with the non-nil map built so far in
\* that cycle, which holds every value written by the cycle's earlier,
\* successful steps.
C1_MapOnStepFailure ==
    MetricStepFailed =>
        /\ ~ret.nil
        /\ ret.err \notin {"nil", "none"}
        /\ ret.mx = mx
        /\ \A i \in 1..Len(issued) :
               issued[i].ok /\ issued[i].q \in MetricQueries
                   => StepKeys(issued[i].q, issued[i].dbs) \subseteq DOMAIN ret.mx

\* C1 witness: the 4th of the 5 steps failed and the returned map holds the
\* values of the first three.
C1_Witness ==
    /\ MetricStepFailed
    /\ Failed("dbconflicts")
    /\ databases # {}
    /\ <<"server_connections_used">> \in DOMAIN ret.mx
    /\ \E k \in DOMAIN ret.mx : Len(k) > 1

\* C2: if the open, the server-version probe, the settings query or the
\* database-list query fails, collect() returns nil and an error, and none
\* of the five collection steps is executed in that cycle.
C2_PreFailureReturnsNil ==
    PreStepFailed =>
        /\ ret.nil
        /\ ret.mx = EmptyMap
        /\ ret.err \notin {"nil", "none"}
        /\ \A i \in 1..Len(issued) : issued[i].q \notin MetricQueries

\* C2 witness: the database-list query failed after two successful probes.
C2_Witness ==
    /\ PreStepFailed
    /\ Failed("dblist")
    /\ IssuedOk("version")
    /\ IssuedOk("settings")

\* C3: the queries of a cycle are issued in the one fixed order, each only
\* after the one before it has succeeded: the conditional ones only when
\* their condition holds, and the five collection steps without a gap.
C3_FixedOrder ==
    /\ \A i \in 1..Len(issued) : \A j \in 1..Len(issued) :
           i < j => issued[i].ok /\ Pos(issued[i].q) < Pos(issued[j].q)
    /\ \A j \in 1..Len(issued) :
           Pos(issued[j].q) > Pos("connection")
               => j > 1 /\ Pos(issued[j - 1].q) = Pos(issued[j].q) - 1
    /\ HasIssued("version") => pre.serverVersion = 0
    /\ HasIssued("settings") => SettingsElapsedAtStart
    /\ HasIssued("dblist") => InventoryElapsedAtStart
    /\ pc # "idle" =>
           \A i \in 1..Len(issued) : Pos(issued[i].q) < Pos(pc)
    /\ pc # "idle" /\ Pos(pc) > Pos("connection") =>
           issued # <<>> /\ Pos(issued[Len(issued)].q) = Pos(pc) - 1

\* C3 witness: a cycle that issued all eight queries and succeeded.
C3_Witness ==
    /\ Returned
    /\ ret.err = "nil"
    /\ Len(issued) = Len(QueryOrder)

\* C4: once a query of a cycle has failed, the cycle issues no further
\* query: the failed query is the last of the cycle, the cycle has
\* returned, and no query is issued twice in one cycle.
C4_NoQueryAfterFailure ==
    /\ \A i \in 1..Len(issued) : ~issued[i].ok => i = Len(issued) /\ pc = "idle"
    /\ \A i \in 1..Len(issued) : \A j \in 1..Len(issued) :
           issued[i].q = issued[j].q => i = j

\* C4 witness: a cycle in which the checkpoints query failed.
C4_Witness ==
    /\ Returned
    /\ Failed("checkpoints")
    /\ Len(issued) >= 2

\* C5 (as stated): a cycle issues a window's refresh query if and only if
\* now - lastRefreshAt is strictly greater than the interval.
C5_RefreshIffElapsed ==
    Returned =>
        /\ HasIssued("settings") <=> SettingsElapsedAtStart
        /\ HasIssued("dblist") <=> InventoryElapsedAtStart

\* C5 (amended): a cycle that reaches a window's gate (no earlier step of
\* the cycle has failed) issues that class's refresh query if and only if
\* now - lastRefreshAt is strictly greater than the interval; a cycle within
\* the window issues no refresh query and leaves the cached value as it was.
C5_RefreshIffElapsedAtGate ==
    /\ Past(Pos("settings")) => (HasIssued("settings") <=> SettingsElapsedAtStart)
    /\ Past(Pos("dblist")) => (HasIssued("dblist") <=> InventoryElapsedAtStart)
    /\ ~SettingsElapsedAtStart =>
           /\ ~HasIssued("settings")
           /\ maxConnections = pre.maxConnections
           /\ recheckSettingsTime = pre.recheckSettingsTime
    /\ ~InventoryElapsedAtStart =>
           /\ ~HasIssued("dblist")
           /\ databases = pre.databases
           /\ relistDatabaseTime = pre.relistDatabaseTime

\* C5 witness: a complete cycle inside both windows, reusing a cached
\* max-connections value and a cached database set.
C5_Witness ==
    /\ Returned
    /\ ret.err = "nil"
    /\ ~SettingsElapsedAtStart
    /\ ~InventoryElapsedAtStart
    /\ maxConnections # 0
    /\ databases # {}
    /\ pre.clock > pre.recheckSettingsTime

\* C6 (as stated): a cycle whose settings query fails leaves the
\* lastSettingsCheck timestamp unchanged.
C6_StampOnlyOnSuccess ==
    Returned /\ Failed("settings") => recheckSettingsTime = pre.recheckSettingsTime

\* C7: when the settings query fails, by a query error or an unparseable
\* result, the cached maxConnections keeps the value it had before the cycle
\* and collect() returns the error.
C7_FailedSettingsKeepsCache ==
    Failed("settings") =>
        /\ maxConnections = pre.maxConnections
        /\ Returned
        /\ ret.nil
        /\ ret.err = "querying settings max connections error"

\* C7 witness: the settings query failed while a value was cached.
C7_Witness ==
    /\ Failed("settings")
    /\ pre.maxConnections # 0
    /\ maxConnections = pre.maxConnections

\* C8 (as stated): the two windows are gated independently: a cycle in
\* which only the inventory window has elapsed issues the database-list
\* query and no settings query, and symmetrically; a cycle that does not
\* refresh a class leaves that class's timestamp and cached value alone,
\* whatever it does to the other class.
C8_IndependentWindows ==
    /\ ~SettingsElapsedAtStart /\ InventoryElapsedAtStart =>
           /\ ~HasIssued("settings")
           /\ Returned => HasIssued("dblist")
    /\ SettingsElapsedAtStart /\ ~InventoryElapsedAtStart =>
           /\ ~HasIssued("dblist")
           /\ Returned => HasIssued("settings")
    /\ ~HasIssued("dblist") =>
           /\ relistDatabaseTime = pre.relistDatabaseTime
           /\ databases = pre.databases
    /\ ~HasIssued("settings") =>
           /\ recheckSettingsTime = pre.recheckSettingsTime
           /\ maxConnections = pre.maxConnections

\* C8 (amended): the same, with the query of the elapsed window issued by
\* every cycle that gets as far as that window's gate (a cycle that fails at
\* the open or at the version query issues neither).
C8_IndependentWindowsAtGate ==
    /\ ~SettingsElapsedAtStart /\ InventoryElapsedAtStart =>
           /\ ~HasIssued("settings")
           /\ Past(Pos("dblist")) => HasIssued("dblist")
    /\ SettingsElapsedAtStart /\ ~InventoryElapsedAtStart =>
           /\ ~HasIssued("dblist")
           /\ Past(Pos("settings")) => HasIssued("settings")
    /\ ~HasIssued("dblist") =>
           /\ relistDatabaseTime = pre.relistDatabaseTime
           /\ databases = pre.databases
    /\ ~HasIssued("settings") =>
           /\ recheckSettingsTime = pre.recheckSettingsTime
           /\ maxConnections = pre.maxConnections

\* C8 witness: only the inventory window had elapsed, and the cycle listed
\* the databases, changing the registry, with the settings left alone.
C8_Witness ==
    /\ Returned
    /\ ~SettingsElapsedAtStart
    /\ InventoryElapsedAtStart
    /\ IssuedOk("dblist")
    /\ databases # pre.databases
    /\ maxConnections # 0

\* C8 witness of the symmetric case: only the settings window had elapsed.
C8_WitnessSettingsOnly ==
    /\ Returned
    /\ SettingsElapsedAtStart
    /\ ~InventoryElapsedAtStart
    /\ IssuedOk("settings")
    /\ maxConnections # pre.maxConnections

\* C9: once serverVersion is non-zero it never changes again and the
\* server-version query is never issued again.
C9_VersionProbedOnce ==
    [][serverVersion # 0 =>
           /\ serverVersion' = serverVersion
           /\ Len(issued') > Len(issued) => issued'[Len(issued')].q # "version"]_vars

\* C9 witness: a later cycle, begun with the version known, that failed.
C9_Witness ==
    /\ Returned
    /\ pre.serverVersion # 0
    /\ ret.err \notin {"nil", "none"}
    /\ issued # <<>>

\* C10: reconcileInventory(B) on a registry holding A leaves the registry
\* equal to B, with materialize called exactly for B \ A and retire called
\* exactly for A \ B; a cycle that does not reconcile calls neither.
C10_ReconcileDelta ==
    /\ IssuedOk("dblist") =>
           /\ databases = Entry("dblist").dbs
           /\ calls.added = Entry("dblist").dbs \ pre.databases
           /\ calls.removed = pre.databases \ Entry("dblist").dbs
           /\ calls.n = Cardinality(calls.added) + Cardinality(calls.removed)
    /\ ~IssuedOk("dblist") => calls = NoCalls /\ databases = pre.databases

\* C10 witness: A = {"a"} replaced by B = {"a_b"}: one name materialized,
\* one retired.
C10_Witness ==
    /\ IssuedOk("dblist")
    /\ pre.databases = { <<"a">> }
    /\ databases = { <<"a", "_", "b">> }
    /\ calls.added # {}
    /\ calls.removed # {}

\* None of the series of dbname in cs is marked for removal.
Unmarked(cs, dbname) == \A c \in SeriesOf(cs, dbname) : ~c.remove

\* C11: retiring a database marks none of the series of another database
\* that is still present: over any step of a cycle, a database that stays in
\* the registry and whose series were unmarked keeps them unmarked, also
\* when its name starts with the retired name and "_".
C11_RetireMarksOnlyOwn ==
    [][\A y \in databases \cap databases' :
           Unmarked(charts, y) => Unmarked(charts', y)]_vars

\* Every series the templates give dbname is in cs and live.
FullyLive(cs, dbname) ==
    /\ Unmarked(cs, dbname)
    /\ Names(SeriesOf(cs, dbname)) = Names(SeqToSet(newDatabaseCharts(dbname)))

C13_MaterializeIdempotent ==
    \A n \in ChartNames :
        FullyLive(charts, n) =>
            /\ materialize(tmpls, charts, n).charts = charts
            /\ addNewDatabaseCharts(charts, n) = charts

\* C13 witness: "a" is materialized, live and already created by the
\* consuming layer, next to a retired name still in the list.
C13_Witness ==
    /\ FullyLive(charts, <<"a">>)
    /\ \A c \in SeriesOf(charts, <<"a">>) : c.created
    /\ \E c \in SeriesOf(charts, <<"p">>) : c.remove

\* C14: reconciling twice with the same non-empty set: a cycle whose
\* listing equals the registry it began with calls neither materialize nor
\* retire and leaves the registry as it was, and reconciling any listing a
\* second time, right after the first, changes nothing and calls nothing.
C14_ReconcileIdempotent ==
    IssuedOk("dblist") /\ databases # {} =>
        /\ Entry("dblist").dbs = pre.databases =>
               calls = NoCalls /\ databases = pre.databases
        /\ collectDatabaseList(databases, charts, databases) =
               [databases |-> databases, charts |-> charts, calls |-> NoCalls]

\* C14 witness: a cycle that relisted {"a", "a_b"} over a registry already
\* holding both, and returned.
C14_Witness ==
    /\ Returned
    /\ IssuedOk("dblist")
    /\ pre.databases = DbNames
    /\ Entry("dblist").dbs = DbNames
    /\ calls = NoCalls

ParseErrors == { "syntax", "range" }

\* C15 (as stated): no query of a cycle, the server-version probe and the
\* max-connections query included, fails because the text it returned is not
\* a valid base-10 integer.
C15_NoParseFailure ==
    \A i \in 1..Len(issued) : issued[i].err \notin ParseErrors

\* C15 (amended): unparseable text fails a cycle only at the server-version
\* probe and the max-connections query, where it ends the cycle with nil and
\* that query's error; no metrics query fails because of a column's text,
\* and a checkpoints column that is empty or not a number is stored as 0.
C15_ParseFailureOnlyAtProbes ==
    /\ \A i \in 1..Len(issued) :
           /\ issued[i].q \in MetricQueries => issued[i].err \notin ParseErrors
           /\ issued[i].err \in ParseErrors =>
                  /\ issued[i].q \in {"version", "settings"}
                  /\ i = Len(issued)
                  /\ pc = "idle"
                  /\ ret.nil
                  /\ ret.err = IF issued[i].q = "version"
                               THEN "querying server version error"
                               ELSE "querying settings max connections error"
    /\ IssuedOk("checkpoints") =>
           \A i \in 1..Len(CheckpointColumns) :
               <<CheckpointColumns[i]>> \in DOMAIN mx =>
                   mx[<<CheckpointColumns[i]>>] \in {0, 7}

\* C15 witness: a cycle that ran to its end although the checkpoints query
\* delivered a row without numbers, stored as 0.
C15_Witness ==
    /\ Returned
    /\ ret.err = "nil"
    /\ <<"checkpoints_timed">> \in DOMAIN mx
    /\ mx[<<"checkpoints_timed">>] = 0

\* A base-10 integer text: an optional sign, then one digit or more.
Unsigned(t) == IF t # <<>> /\ Head(t) \in {"-", "+"} THEN Tail(t) ELSE t
IsDecimal(t) ==
    /\ Unsigned(t) # <<>>
    /\ \A i \in 1..Len(Unsigned(t)) : Unsigned(t)[i] \in Digits

RECURSIVE Magnitude(_)
Magnitude(ds) ==
    IF ds = <<>> THEN 0
    ELSE 10 * Magnitude(SubSeq(ds, 1, Len(ds) - 1)) + DigitVal(ds[Len(ds)])

DecimalValue(t) ==
    IF Head(t) = "-" THEN 0 - Magnitude(Unsigned(t)) ELSE Magnitude(Unsigned(t))

\* C16: safeParseInt yields the integer a well-formed text in the 64-bit
\* range denotes, and 0 for every other text: empty, non-numeric, or a
\* digit string outside the range.
C16_ZeroOnFailure ==
    result.kind = "parsed" =>
        result.v = IF /\ IsDecimal(input.text)
                      /\ DecimalValue(input.text) >= 0 - MaxInt64 - 1
                      /\ DecimalValue(input.text) <= MaxInt64
                   THEN DecimalValue(input.text)
                   ELSE 0

Abs(x) == IF x < 0 THEN 0 - x ELSE x

\* C17: calcPercentage(value, total) is 0 when total is 0, and otherwise
\* value * 100 / total truncated toward zero (the quotient q with
\* q * total + r = value * 100, |r| < |total|, r of the dividend's sign);
\* (0, 0) gives 0, (3, 100) gives 3 and (97, 0) gives 0.
C17_Percentage ==
    result.kind = "percentage" =>
        LET v == input.value
            t == input.total
            q == result.v
        IN /\ t = 0 => q = 0
           /\ t # 0 =>
                  \E r \in (1 - Abs(t))..(Abs(t) - 1) :
                      /\ q * t + r = v * 100
                      /\ r > 0 => v > 0
                      /\ r < 0 => v < 0
           /\ v = 0 /\ t = 0 => q = 0
           /\ v = 3 /\ t = 100 => q = 3
           /\ v = 97 /\ t = 0 => q = 0

\* C17 witness: calcPercentage(-7, 3) has returned -233, rounded toward zero.
C17_Witness ==
    /\ result.kind = "percentage"
    /\ input.value = -7
    /\ input.total = 3
    /\ result.v = -233

\* C18: a result set whose iteration fails (the cursor stops on an error,
\* a row does not scan, the columns cannot be read) makes the step return an
\* error, never a shorter result without one.
C18_IterationFailureIsError ==
    result.kind = "checkpoints" /\ input.res.end # "eof" => result.v.err # "nil"

\* C19: the error of a failed cycle names the step that failed: the label
\* of the per-database conflicts step is returned only when that step
\* failed, never for a failure of the checkpoints step.
C19_LabelNamesFailedStep ==
    Returned /\ ret.err = "querying database conflicts error" =>
        Failed("dbconflicts")

\* C20 (as stated): a cycle that begins after a failed cycle, with a session
\* handle held, discards the handle and opens a new one.
C20_ReopenAfterFailure ==
    [][/\ pc = "idle"
       /\ ret.err \notin {"nil", "none"}
       /\ db # 0
       /\ issued' = <<>>
       => db' # db]_vars

\* C20 (amended): a handle, once held, is never discarded or replaced: a
\* cycle that begins after a failed cycle with the handle held opens
\* nothing and goes straight to the metadata probes on the same handle.
C20_HandleKeptAfterFailure ==
    [][/\ db # 0 => db' = db
       /\ (/\ pc = "idle"
           /\ ret.err \notin {"nil", "none"}
           /\ db # 0
           /\ pc' # pc)
          => pc' = "version" /\ ret' = NoRet]_vars

\* C20 witness: a cycle under way on the handle of the first open, begun
\* with the handle held after a cycle that failed at the version query (the
\* version is still unknown).
C20_Witness ==
    /\ pc = "version"
    /\ db = 1
    /\ pre.db = 1
    /\ serverVersion = 0

\* The cycle has begun: it is under way or has returned.
Begun == pc # "idle" \/ ret.err # "none"

\* C21: a cycle whose open or ping failed has returned nil with the open's
\* error and issued no query; no handle is recorded and none is left open;
\* and no cycle is ever under way without a handle, so the cycle after a
\* failed open has opened a session again before its first query.
C21_FailedOpenLeavesNoHandle ==
    /\ pc = "idle" /\ ret.err = "open" =>
           /\ ret.nil
           /\ issued = <<>>
           /\ db = 0
           /\ sessions = 0
           /\ NeedsOpen(db)
    /\ pc # "idle" => db # 0 /\ sessions = 1
    /\ issued # <<>> => db # 0

\* C21 witness: a cycle later than the first has just failed at the open.
C21_Witness ==
    /\ pc = "idle"
    /\ ret.err = "open"
    /\ pre.clock > StartClock
    /\ db = 0

\* C22: a cycle opens a session exactly when it began without a handle (it
\* then holds the first handle or has returned the open's error); a cycle
\* that began with a handle still has that handle and has not opened
\* anything; and at most one handle is ever open, the recorded one.
C22_OpenIffNoHandle ==
    /\ pre.db = 0 /\ Begun => (db = 1 /\ sessions = 1) \/ (db = 0 /\ ret.err = "open")
    /\ pre.db # 0 => db = pre.db /\ ret.err # "open"
    /\ sessions = IF db = 0 THEN 0 ELSE 1

\* C22 witness: a cycle that began with the handle held has returned, on
\* the same handle.
C22_Witness ==
    /\ Returned
    /\ pre.db = 1
    /\ db = 1
    /\ sessions = 1

\* C23: collectRows calls assign once for every (row, column) pair of the
\* rows the cursor delivered, row by row and within a row column by column,
\* with the column's name and its text, the empty text for NULL; a result
\* without rows that ends normally gives no call and no error.
C23_OneCallPerRowAndColumn ==
    result.kind = "flattened" /\ input.res.end # "columns" =>
        LET rows  == input.res.rows
            cols  == input.res.columns
            made  == result.v.calls
        IN /\ Len(made) = Len(rows) * Len(cols)
           /\ \A r \in 1..Len(rows) : \A c \in 1..Len(cols) :
                  LET call == made[(r - 1) * Len(cols) + c]
                  IN /\ call.column = cols[c]
                     /\ call.value = IF rows[r][c].Valid THEN rows[r][c].String
                                     ELSE <<>>
           /\ rows = <<>> /\ input.res.end = "eof" =>
                  made = <<>> /\ ~result.v.err

\* C23 witness: two rows that differ, with a NULL in the first, flattened
\* into four calls.
C23_Witness ==
    /\ result.kind = "flattened"
    /\ input.res.end = "eof"
    /\ Len(input.res.rows) = 2
    /\ input.res.rows[1] # input.res.rows[2]
    /\ ~input.res.rows[1][1].Valid
    /\ Len(result.v.calls) = 4
    /\ ~result.v.err

\* C24: a cycle whose connection step succeeded and whose checkpoints step
\* failed has returned the error together with a map that holds the
\* connection metrics, and Check() on it succeeds.
C24_PartialMapPassesCheck ==
    Returned /\ IssuedOk("connection") /\ Failed("checkpoints") =>
        /\ ret.err \notin {"nil", "none"}
        /\ ~ret.nil
        /\ ret.mx # EmptyMap
        /\ StepKeys("connection", {}) \subseteq DOMAIN ret.mx
        /\ Check(ret)

\* C24 witness: the checkpoints query itself failed after the connection
\* metrics were written.
C24_Witness ==
    /\ Returned
    /\ IssuedOk("connection")
    /\ Failed("checkpoints")
    /\ Entry("checkpoints").err = "query"
    /\ <<"server_connections_used">> \in DOMAIN ret.mx

\* C25: a cycle whose database-list query fails leaves the inventory
\* window's timestamp as it was, and the registry too.
C25_FailedListKeepsStamp ==
    Returned /\ Failed("dblist") =>
        /\ relistDatabaseTime = pre.relistDatabaseTime
        /\ databases = pre.databases

\* The cycle began with both refresh timestamps unset.
FreshWindows ==
    /\ pre.recheckSettingsTime = ZeroTime
    /\ pre.relistDatabaseTime = ZeroTime

\* A collection step of the cycle runs or has run.
CollectionBegun ==
    \/ pc \in MetricQueries
    \/ \E i \in 1..Len(issued) : issued[i].q \in MetricQueries

\* C26 (as stated): in a cycle that began with both timestamps unset, the
\* settings query and the database-list query have both been issued before
\* any collection step runs, whatever the positive intervals.
C26_FirstCycleRefreshesBoth ==
    FreshWindows /\ CollectionBegun =>
        HasIssued("settings") /\ HasIssued("dblist")

\* C26 (amended): in such a cycle each of the two queries has been issued
\* before any collection step runs exactly when its interval is below the
\* largest duration; with the largest duration as its interval the query is
\* not issued, since the time since the unset timestamp saturates at it.
C26_FirstCycleRefreshesBelowMax ==
    FreshWindows /\ CollectionBegun =>
        /\ HasIssued("settings") <=> recheckSettingsEvery < MaxDuration
        /\ HasIssued("dblist") <=> relistDatabaseEvery < MaxDuration

\* C26 witness: the first cycle at its first collection step, both queries
\* issued, with the two intervals different.
C26_Witness ==
    /\ pc = "connection"
    /\ FreshWindows
    /\ pre.db = 0
    /\ recheckSettingsEvery = 1
    /\ relistDatabaseEvery = 2
    /\ IssuedOk("settings")
    /\ IssuedOk("dblist")

PerDatabaseQueries == { "dbstats", "dbconflicts", "dblocks" }

\* C27: every per-database query of a cycle is parameterised by exactly the
\* registry as it stands after the cycle's inventory step (the listing, when
\* the cycle reconciled), and a successful one has written the keys of
\* every database of that registry and of no other: a database removed by
\* this cycle's reconciliation is not queried, one added by it is.
C27_QueriesFollowRegistry ==
    \A i \in 1..Len(issued) :
        issued[i].q \in PerDatabaseQueries =>
            /\ issued[i].dbs = databases
            /\ IssuedOk("dblist") => issued[i].dbs = Entry("dblist").dbs
            /\ ~HasIssued("dblist") => issued[i].dbs = pre.databases
            /\ issued[i].dbs \cap calls.removed = {}
            /\ calls.added \subseteq issued[i].dbs
            /\ issued[i].ok =>
                   /\ StepKeys(issued[i].q, databases) \subseteq DOMAIN mx
                   /\ StepKeys(issued[i].q, DbNames \ databases) \cap DOMAIN mx = {}

\* C27 witness: a cycle whose reconciliation retired "a" and materialized
\* "a_b" has run the stats query, for "a_b" alone.
C27_Witness ==
    /\ IssuedOk("dbstats")
    /\ calls.removed = { <<"a">> }
    /\ calls.added = { <<"a", "_", "b">> }
    /\ Entry("dbstats").dbs = { <<"a", "_", "b">> }

\* The keys the checkpoints step writes.
CheckpointKeys == { <<CheckpointColumns[i]>> : i \in 1..Len(CheckpointColumns) }

\* The keys step q can write for the databases dbs.
KeysOf(q, dbs) ==
    IF q \notin MetricQueries THEN {}
    ELSE IF q = "checkpoints" THEN CheckpointKeys
    ELSE StepKeys(q, dbs)

\* C28: the map a cycle returns holds only keys written in that cycle: keys
\* of the steps it issued, for the databases of its registry; no key of a
\* step it did not reach and no key of a database that is not in the
\* registry, whatever earlier cycles returned.
C28_SnapshotFromEmptyMap ==
    /\ Returned /\ ~ret.nil =>
           /\ ret.mx = mx
           /\ DOMAIN ret.mx \subseteq
                  UNION { KeysOf(issued[i].q, databases) : i \in 1..Len(issued) }
           /\ \A q \in MetricQueries :
                  ~HasIssued(q) => KeysOf(q, DbNames) \cap DOMAIN ret.mx = {}
    /\ DOMAIN mx \subseteq UNION { KeysOf(issued[i].q, databases) : i \in 1..Len(issued) }

\* C28 witness: a full cycle for "a_b" alone, after a cycle in which "a" was
\* in the registry, has returned a map without any key of "a".
C28_Witness ==
    /\ Returned
    /\ ret.err = "nil"
    /\ pre.databases = DbNames
    /\ databases = { <<"a", "_", "b">> }
    /\ StepKeys("dbstats", databases) \subseteq DOMAIN ret.mx
    /\ StepKeys("dbstats", { <<"a">> }) \cap DOMAIN ret.mx = {}

====
